---- MODULE Spec2Model ----
(***************************************************************************)
(* SuperMeClient (superme_sdk/client.py): one client object, the HTTP      *)
(* requests it issues, and the outcome of the last call made on it.        *)
(*                                                                         *)
(* Python values: an Optional value is None (<<>>) or Some(v) (<<v>>).     *)
(* URLs and endpoints are sequences of characters, where every run of      *)
(* characters other than "/" is written as one element.                    *)
(***************************************************************************)
EXTENDS Integers, Sequences, FiniteSets, TLC

\* ---------------------------------------------------------------- bounds
MaxRequests == 3        \* HTTP requests one client issues in a behaviour
MaxSlashes == 2         \* trailing slashes of the base_url given to __init__

\* ------------------------------------------------------- python values
None == <<>>
Some(v) == <<v>>

\* bool(x) of an Optional[str]: None and "" are falsy
Truthy(x) == x # None /\ x # Some("")

Return(v) == [kind |-> "return", value |-> v]
Raise(type, msg) == [kind |-> "raise", value |-> [type |-> type, msg |-> msg]]

NotLoggedIn == Raise("Exception", <<"Not logged in. Call login() first.">>)

\* A dict is a set of <<key, value>> pairs with distinct keys.
\* dict.get(key): the value, or None when the key is missing
DictGet(d, k) ==
    IF \E p \in d : p[1] = k THEN (CHOOSE p \in d : p[1] = k)[2] ELSE None

\* d[k] = v
DictSet(d, k, v) == { p \in d : p[1] # k } \cup { <<k, v>> }

\* ---------------------------------------------------------------- inputs
Host == <<"http:", "/", "/", "h">>
BaseUrls == { Host \o [i \in 1..n |-> "/"] : n \in 0..MaxSlashes }
Usernames == {"alice"}
Keys == {"k1"}
Modes == {"username_key", "api_key"}

LoginPath == <<"/", "login">>
McpPath == <<"/", "mcp">>
Endpoints == { McpPath, <<"/", "mcp", "/", "completion">> }
\* the method argument of raw_request: omitted, or given
Methods == { None, Some("POST"), Some("GET") }
Bodies == { None, Some("tools/list") }
\* headers the caller passes to raw_request: absent, or a dict
CallerHeaders == { None,
                   Some({<<"X-Trace", <<"1">>>>}),
                   Some({<<"Authorization", <<"Basic", "abc">>>>}) }

Statuses == {200, 201, 401}
DefaultMaxTokens == 1000
\* value of the "backend_token" field of a /login reply
TokenValues == { None, Some(""), Some("t1"), Some("t2") }
LoginBodies == { [has_token |-> FALSE, backend_token |-> None] }
               \cup { [has_token |-> TRUE, backend_token |-> t] : t \in TokenValues }
LoginReplies == [status : Statuses, body : LoginBodies]
\* OPENAI_API_KEY in the process environment, read by OpenAI() when api_key is None
Environments == { None, Some("sk-env") }

Questions == {"Q1", "Q2"}
UserIds == {"1", "42"}
ConversationIds == { None, Some(""), Some("abc") }
Msg(r, c) == [role |-> r, content |-> c]
Histories == { <<>>,
               <<Msg("user", "Q1")>>,
               <<Msg("user", "Q1"), Msg("assistant", "A1"), Msg("user", "Q2")>> }
\* the "metadata" attribute of a chat response: absent, null, or a mapping
Metadatas == { [attr |-> "absent", dict |-> {}],
               [attr |-> "null", dict |-> {}],
               [attr |-> "dict", dict |-> {}],
               [attr |-> "dict", dict |-> {<<"conversation_id", Some("c9")>>}] }
ChoiceLists == { <<>>, <<"A1", "A2">> }
\* what completions.create does: raises on an upstream error, or returns a response
ChatResults == { [ok |-> FALSE, choices |-> <<>>, metadata |-> [attr |-> "absent", dict |-> {}]] }
               \cup { [ok |-> TRUE, choices |-> c, metadata |-> m] : c \in ChoiceLists, m \in Metadatas }
RawResponses == { [status |-> 200, body |-> "ok"], [status |-> 404, body |-> "err"] }

\* ----------------------------------------------------------------- state
VARIABLES
    constructed,    \* "none": no client yet, "ok": __init__ returned, "failed": __init__ raised
    username,       \* self.username
    key,            \* self.key
    base_url,       \* self.base_url
    jwt_token,      \* self._jwt_token
    openai_client,  \* self._openai_client: None or Some([base_url, api_key])
    nreq,           \* number of HTTP requests issued so far
    first,          \* the first HTTP request issued, None before it
    lastLogin,      \* <<>> before any login() returned, else <<token returned by the latest one>>
    last            \* the last call: op, args, outcome, sent (requests it issued)

vars == <<constructed, username, key, base_url, jwt_token, openai_client,
          nreq, first, lastLogin, last>>

Bearer(tok) == <<"Bearer", tok>>

\* strips one trailing slash only
rstrip_once(s) ==
    IF Len(s) > 0 /\ s[Len(s)] = "/" THEN SubSeq(s, 1, Len(s) - 1) ELSE s

\* str.rstrip("/")
RECURSIVE rstrip(_)
rstrip(s) ==
    IF Len(s) > 0 /\ s[Len(s)] = "/" THEN rstrip(SubSeq(s, 1, Len(s) - 1)) ELSE s

\* OpenAI(base_url=..., api_key=...): with api_key None the constructor falls back to
\* OPENAI_API_KEY and raises OpenAIError when that is unset too. None stands for the raise.
OpenAI(url, api_key, env) ==
    IF api_key # None THEN Some([base_url |-> url, api_key |-> api_key[1]])
    ELSE IF env # None THEN Some([base_url |-> url, api_key |-> env[1]])
    ELSE None

LoginRequest(b, u, k) ==
    [via |-> "requests", method |-> "POST", url |-> b \o LoginPath, headers |-> {},
     body |-> [username |-> u, password |-> k, client |-> "MCP"]]

\* reads the token out of the reply before looking at the status
LoginEffect_storeFirst(b, tok, cli, reply, env) ==
    IF reply.status # 200
    THEN [jwt |-> IF reply.body.has_token THEN reply.body.backend_token ELSE tok,
          client |-> cli,
          outcome |-> Raise("Exception", <<"Login failed with status", reply.status, reply.body>>)]
    ELSE IF ~reply.body.has_token
    THEN [jwt |-> tok, client |-> cli, outcome |-> Raise("KeyError", <<"backend_token">>)]
    ELSE LET t == reply.body.backend_token
             built == OpenAI(b \o McpPath, t, env)
         IN  IF built = None
             THEN [jwt |-> t, client |-> cli, outcome |-> Raise("OpenAIError", <<"api_key">>)]
             ELSE [jwt |-> t, client |-> built, outcome |-> Return(t)]

\* login(): the body after the request was answered with reply; tok and cli are the
\* fields before the call.
LoginEffect(b, tok, cli, reply, env) ==
    IF reply.status # 200
    THEN [jwt |-> tok, client |-> cli,
          outcome |-> Raise("Exception", <<"Login failed with status", reply.status, reply.body>>)]
    ELSE IF ~reply.body.has_token
    THEN [jwt |-> tok, client |-> cli, outcome |-> Raise("KeyError", <<"backend_token">>)]
    ELSE LET t == reply.body.backend_token
             built == OpenAI(b \o McpPath, t, env)
         IN  IF built = None
             THEN [jwt |-> t, client |-> cli, outcome |-> Raise("OpenAIError", <<"api_key">>)]
             ELSE [jwt |-> t, client |-> built, outcome |-> Return(t)]

Init ==
    /\ constructed = "none"
    /\ username = None
    /\ key = None
    /\ base_url = None
    /\ jwt_token = None
    /\ openai_client = None
    /\ nreq = 0
    /\ first = None
    /\ lastLogin = <<>>
    /\ last = [op |-> "none", args |-> None, outcome |-> Return(None), sent |-> <<>>]

\* bookkeeping of the requests a call issued
Issue(reqs) ==
    /\ nreq' = nreq + Len(reqs)
    /\ first' = IF first = None /\ Len(reqs) > 0 THEN Some(reqs[1]) ELSE first

\* if auto_login:
AutoLogin_always(auto) == TRUE

AutoLogin(auto) == auto

\* SuperMeClient(...): __init__ takes username, key, base_url, auto_login; a call in
\* api-key mode (api_key=...) does not match the signature and raises TypeError.
Construct(mode, u, k, b, auto, reply, env) ==
    /\ constructed = "none"
    /\ IF mode = "api_key"
       THEN /\ constructed' = "failed"
            /\ UNCHANGED <<username, key, base_url, jwt_token, openai_client, lastLogin>>
            /\ Issue(<<>>)
            /\ last' = [op |-> "init",
                        args |-> [mode |-> mode, api_key |-> k, base_url |-> b,
                                  auto_login |-> auto],
                        outcome |-> Raise("TypeError", <<"api_key">>), sent |-> <<>>]
       ELSE LET sb == rstrip(b)
                eff == LoginEffect(sb, None, None, reply, env)
            IN  /\ username' = Some(u)
                /\ key' = Some(k)
                /\ base_url' = sb
                /\ IF AutoLogin(auto)
                   THEN /\ jwt_token' = eff.jwt
                        /\ openai_client' = eff.client
                        /\ constructed' = IF eff.outcome.kind = "return" THEN "ok" ELSE "failed"
                        /\ lastLogin' = IF eff.outcome.kind = "return"
                                        THEN <<eff.outcome.value>> ELSE lastLogin
                        /\ Issue(<<LoginRequest(sb, u, k)>>)
                        /\ last' = [op |-> "init",
                                    args |-> [mode |-> mode, base_url |-> b, auto_login |-> auto,
                                              reply |-> reply],
                                    outcome |-> IF eff.outcome.kind = "return"
                                                THEN Return(None) ELSE eff.outcome,
                                    sent |-> <<LoginRequest(sb, u, k)>>]
                   ELSE /\ jwt_token' = None
                        /\ openai_client' = None
                        /\ constructed' = "ok"
                        /\ UNCHANGED lastLogin
                        /\ Issue(<<>>)
                        /\ last' = [op |-> "init",
                                    args |-> [mode |-> mode, base_url |-> b, auto_login |-> auto],
                                    outcome |-> Return(None), sent |-> <<>>]

\* client.login()
Login(reply, env) ==
    /\ constructed = "ok"
    /\ nreq < MaxRequests
    /\ LET req == LoginRequest(base_url, username[1], key[1])
           eff == LoginEffect(base_url, jwt_token, openai_client, reply, env)
       IN  /\ jwt_token' = eff.jwt
           /\ openai_client' = eff.client
           /\ lastLogin' = IF eff.outcome.kind = "return" THEN <<eff.outcome.value>> ELSE lastLogin
           /\ Issue(<<req>>)
           /\ last' = [op |-> "login", args |-> [reply |-> reply],
                       outcome |-> eff.outcome, sent |-> <<req>>]
    /\ UNCHANGED <<constructed, username, key, base_url>>

\* the chat property followed by completions.create(...): result is what the wrapped
\* client does with the request (an upstream error raises).
ChatRequest(cli, messages, extra_body, max_tokens) ==
    [via |-> "openai", method |-> "POST",
     url |-> cli.base_url \o <<"/", "chat", "/", "completions">>,
     headers |-> {<<"Authorization", Bearer(cli.api_key)>>},
     body |-> [model |-> "gpt-4", messages |-> messages, extra_body |-> extra_body,
               max_tokens |-> max_tokens]]

ChatEffect(messages, extra_body, max_tokens, result) ==
    IF openai_client = None
    THEN [outcome |-> NotLoggedIn, sent |-> <<>>]
    ELSE [outcome |-> IF result.ok THEN Return(result)
                      ELSE Raise("APIStatusError", <<"upstream">>),
          sent |-> <<ChatRequest(openai_client[1], messages, extra_body, max_tokens)>>]

\* extra_body = {"user": user_id}; if conversation_id: extra_body["conversation_id"] = ...
ExtraBody(user_id, conversation_id) ==
    IF Truthy(conversation_id)
    THEN DictSet({<<"user", user_id>>}, "conversation_id", conversation_id[1])
    ELSE {<<"user", user_id>>}

\* response.choices[0].message.content
FirstContent(response) ==
    IF Len(response.choices) = 0 THEN Raise("IndexError", <<"choices">>)
    ELSE Return(response.choices[1])

\* response.metadata.get("conversation_id") if hasattr(response, "metadata") else None
ResponseConvId(response) ==
    IF response.metadata.attr = "absent" THEN Return(None)
    ELSE IF response.metadata.attr = "null" THEN Raise("AttributeError", <<"get">>)
    ELSE Return(DictGet(response.metadata.dict, "conversation_id"))

\* client.chat.completions.create(model="gpt-4", messages=..., extra_body=..., max_tokens=...)
Chat(messages, extra_body, result) ==
    /\ constructed = "ok"
    /\ LET eff == ChatEffect(messages, extra_body, DefaultMaxTokens, result)
       IN  /\ nreq + Len(eff.sent) <= MaxRequests
           /\ Issue(eff.sent)
           /\ last' = [op |-> "chat", args |-> [messages |-> messages, extra_body |-> extra_body],
                       outcome |-> eff.outcome, sent |-> eff.sent]
    /\ UNCHANGED <<constructed, username, key, base_url, jwt_token, openai_client, lastLogin>>

\* client.ask(question, user_id, conversation_id)
Ask(question, user_id, conversation_id, result) ==
    /\ constructed = "ok"
    /\ LET eff == ChatEffect(<<Msg("user", question)>>, ExtraBody(user_id, conversation_id),
                             DefaultMaxTokens, result)
       IN  /\ nreq + Len(eff.sent) <= MaxRequests
           /\ Issue(eff.sent)
           /\ last' = [op |-> "ask",
                       args |-> [question |-> question, user_id |-> user_id,
                                 conversation_id |-> conversation_id, result |-> result],
                       outcome |-> IF eff.outcome.kind = "raise" THEN eff.outcome
                                   ELSE FirstContent(eff.outcome.value),
                       sent |-> eff.sent]
    /\ UNCHANGED <<constructed, username, key, base_url, jwt_token, openai_client, lastLogin>>

\* client.ask_with_history(messages, user_id, conversation_id)
AskWithHistory(messages, user_id, conversation_id, result) ==
    /\ constructed = "ok"
    /\ LET eff == ChatEffect(messages, ExtraBody(user_id, conversation_id),
                             DefaultMaxTokens, result)
           text == FirstContent(eff.outcome.value)
           conv == ResponseConvId(eff.outcome.value)
       IN  /\ nreq + Len(eff.sent) <= MaxRequests
           /\ Issue(eff.sent)
           /\ last' = [op |-> "ask_with_history",
                       args |-> [messages |-> messages, user_id |-> user_id,
                                 conversation_id |-> conversation_id, result |-> result],
                       messages_after |-> messages,
                       outcome |-> IF eff.outcome.kind = "raise" THEN eff.outcome
                                   ELSE IF text.kind = "raise" THEN text
                                   ELSE IF conv.kind = "raise" THEN conv
                                   ELSE Return(<<text.value, conv.value>>),
                       sent |-> eff.sent]
    /\ UNCHANGED <<constructed, username, key, base_url, jwt_token, openai_client, lastLogin>>

\* headers = kwargs.pop("headers", {}); headers["Authorization"] = f"Bearer {token}"
RawHeaders(headers, tok) ==
    DictSet(IF headers = None THEN {} ELSE headers[1], "Authorization", Bearer(tok))

\* method: str = "POST"
MethodOf(method) == IF method = None THEN "POST" ELSE method[1]

RawRequestOf(endpoint, method, body, headers) ==
    [via |-> "requests", method |-> MethodOf(method), url |-> base_url \o endpoint,
     headers |-> RawHeaders(headers, jwt_token[1]), body |-> body]

\* raw_request without the token check: the request goes out with whatever is stored
RawRequest_unguarded(endpoint, method, body, headers, response) ==
    /\ constructed = "ok"
    /\ nreq < MaxRequests
    /\ LET tok == IF jwt_token = None THEN "None" ELSE jwt_token[1]
           req == [via |-> "requests", method |-> MethodOf(method),
                   url |-> base_url \o endpoint,
                   headers |-> RawHeaders(headers, tok), body |-> body]
       IN  /\ Issue(<<req>>)
           /\ last' = [op |-> "raw_request",
                       args |-> [endpoint |-> endpoint, method |-> method, body |-> body,
                                 headers |-> headers, response |-> response],
                       outcome |-> Return(response), sent |-> <<req>>]
    /\ UNCHANGED <<constructed, username, key, base_url, jwt_token, openai_client, lastLogin>>

\* client.raw_request(endpoint, method, json=body, headers=headers); response is what
\* requests.request returns.
RawRequest(endpoint, method, body, headers, response) ==
    /\ constructed = "ok"
    /\ IF ~Truthy(jwt_token)
       THEN /\ Issue(<<>>)
            /\ last' = [op |-> "raw_request",
                        args |-> [endpoint |-> endpoint, method |-> method, body |-> body,
                                  headers |-> headers, response |-> response],
                        outcome |-> NotLoggedIn, sent |-> <<>>]
       ELSE /\ nreq < MaxRequests
            /\ Issue(<<RawRequestOf(endpoint, method, body, headers)>>)
            /\ last' = [op |-> "raw_request",
                        args |-> [endpoint |-> endpoint, method |-> method, body |-> body,
                                  headers |-> headers, response |-> response],
                        outcome |-> Return(response),
                        sent |-> <<RawRequestOf(endpoint, method, body, headers)>>]
    /\ UNCHANGED <<constructed, username, key, base_url, jwt_token, openai_client, lastLogin>>

Next ==
    \/ \E mode \in Modes, u \in Usernames, k \in Keys, b \in BaseUrls, auto \in BOOLEAN,
          reply \in LoginReplies, env \in Environments :
          Construct(mode, u, k, b, auto, reply, env)
    \/ \E reply \in LoginReplies, env \in Environments : Login(reply, env)
    \/ \E messages \in Histories, result \in ChatResults :
          Chat(messages, {<<"user", "1">>}, result)
    \/ \E question \in Questions, user_id \in UserIds, conversation_id \in ConversationIds,
          result \in ChatResults :
          Ask(question, user_id, conversation_id, result)
    \/ \E messages \in Histories, user_id \in UserIds, conversation_id \in ConversationIds,
          result \in ChatResults :
          AskWithHistory(messages, user_id, conversation_id, result)
    \/ \E endpoint \in Endpoints, method \in Methods, body \in Bodies,
          headers \in CallerHeaders, response \in RawResponses :
          RawRequest(endpoint, method, body, headers, response)

Spec == Init /\ [][Next]_vars

\* ------------------------------------------------------------ properties
AuthOps == {"chat", "ask", "ask_with_history", "raw_request"}
HasKey(d, k) == \E p \in d : p[1] = k
Auth(req) == DictGet(req.headers, "Authorization")
Usable(tok) == tok \notin {None, Some("")}
ClientFields == <<constructed, username, key, base_url, jwt_token, openai_client>>
LoginFailedWith(outcome, reply) ==
    /\ outcome.kind = "raise"
    /\ outcome.value.type = "Exception"
    /\ outcome.value.msg[1] = "Login failed with status"
    /\ outcome.value.msg[2] = reply.status
    /\ outcome.value.msg[3] = reply.body
IsNotLoggedIn(outcome) ==
    /\ outcome.kind = "raise"
    /\ outcome.value = [type |-> "Exception", msg |-> <<"Not logged in. Call login() first.">>]

\* C1: a login() answered with 200 and a token stores and returns that token, and every
\* authenticated call made after a login() succeeded issues a request that carries
\* Authorization: Bearer <token returned by the most recent login() that succeeded>.
C1_LatestTokenCarried ==
    /\ (/\ last.op = "login"
        /\ last.args.reply.status = 200
        /\ last.args.reply.body.has_token
        /\ last.args.reply.body.backend_token # None)
       => /\ last.outcome = Return(last.args.reply.body.backend_token)
          /\ jwt_token = last.args.reply.body.backend_token
    /\ last.op \in AuthOps
       => \A i \in 1..Len(last.sent) :
             /\ lastLogin # <<>>
             /\ lastLogin[1] # None
             /\ Auth(last.sent[i]) = Bearer(lastLogin[1][1])
    /\ (last.op \in AuthOps /\ lastLogin # <<>>) => Len(last.sent) = 1

\* C2: a login() answered with a status other than 200 raises an error carrying the
\* status and the body, and leaves the token and the chat client as they were; during
\* construction the token stays absent.
C2_FailedLoginKeepsSession ==
    [][ /\ (last'.op = "login" /\ last'.args.reply.status # 200)
           => /\ LoginFailedWith(last'.outcome, last'.args.reply)
              /\ jwt_token' = jwt_token
              /\ openai_client' = openai_client
              /\ lastLogin' = lastLogin
        /\ (/\ last'.op = "init"
            /\ last'.args.mode = "username_key"
            /\ last'.args.auto_login
            /\ last'.args.reply.status # 200)
           => /\ LoginFailedWith(last'.outcome, last'.args.reply)
              /\ jwt_token' = None
              /\ openai_client' = None
      ]_vars

C2_Witness ==
    /\ last.op = "login"
    /\ last.args.reply.status # 200
    /\ last.args.reply.body.has_token
    /\ last.outcome.kind = "raise"
    /\ Usable(jwt_token)
    /\ openai_client # None

\* C3: on a constructed client on which no login() has returned, chat, ask,
\* ask_with_history and raw_request raise "Not logged in", issue no request and change
\* nothing.
C3_NotLoggedInBeforeNetwork ==
    [][ (constructed = "ok" /\ lastLogin = <<>> /\ last'.op \in AuthOps)
        => /\ IsNotLoggedIn(last'.outcome)
           /\ last'.sent = <<>>
           /\ nreq' = nreq
           /\ first' = first
           /\ UNCHANGED ClientFields
      ]_vars

C3_Witness ==
    /\ constructed = "ok"
    /\ lastLogin = <<>>
    /\ last.op = "raw_request"
    /\ last.outcome.kind = "raise"
    /\ nreq = 1

\* C4: construction with username and key issues exactly one request, to /login, when
\* auto_login is true, and none when it is false; the first request a client ever sends
\* is its /login request, and the client has no token and no chat client before it.
C4_AutoLoginOnce ==
    /\ (last.op = "init" /\ last.args.mode = "username_key")
       => IF last.args.auto_login
          THEN /\ nreq = 1
               /\ last.sent = <<LoginRequest(base_url, username[1], key[1])>>
               /\ first = Some(LoginRequest(base_url, username[1], key[1]))
          ELSE /\ nreq = 0
               /\ last.sent = <<>>
               /\ first = None
               /\ constructed = "ok"
    /\ first # None
       => /\ first[1].url = base_url \o <<"/", "login">>
          /\ first[1].method = "POST"
          /\ first[1].body = [username |-> username[1], password |-> key[1], client |-> "MCP"]
    /\ nreq = 0 => jwt_token = None /\ openai_client = None

C4_Witness ==
    /\ last.op = "init"
    /\ last.args.mode = "username_key"
    /\ last.args.auto_login
    /\ constructed = "ok"
    /\ nreq = 1

\* C5: a client can be constructed in API-key mode: construction succeeds without a
\* request, and the token is present and equal to the API key.
C5_ApiKeyMode ==
    (last.op = "init" /\ last.args.mode = "api_key")
    => /\ constructed = "ok"
       /\ nreq = 0
       /\ jwt_token = Some(last.args.api_key)

\* C6: after construction username, key and base_url never change; the token changes
\* only in a login() answered with 200; a login() that raises leaves the token
\* unchanged; and a login() that changes the token leaves the chat client built with
\* the new token.
C6_TokenOnlyBySuccessfulLogin ==
    [][ constructed = "ok"
        => /\ username' = username /\ key' = key /\ base_url' = base_url
           /\ jwt_token' # jwt_token
              => /\ last'.op = "login"
                 /\ last'.args.reply.status = 200
           /\ (last'.op = "login" /\ last'.outcome.kind = "raise")
              => jwt_token' = jwt_token
           /\ (last'.op = "login" /\ jwt_token' # jwt_token)
              => /\ jwt_token' # None
                 /\ openai_client' # None
                 /\ openai_client'[1].api_key = jwt_token'[1]
      ]_vars

\* C7: ask on an authenticated client issues one chat request with messages
\* [{role: user, content: question}], extra parameter user = user_id, and
\* conversation_id = the given value exactly when one was given; it returns the first
\* choice's content and leaves the client unchanged.
C7_AskRequest ==
    [][ (last'.op = "ask" /\ Usable(jwt_token) /\ openai_client # None)
        => /\ Len(last'.sent) = 1
           /\ nreq' = nreq + 1
           /\ last'.sent[1].body.messages = <<[role |-> "user", content |-> last'.args.question]>>
           /\ <<"user", last'.args.user_id>> \in last'.sent[1].body.extra_body
           /\ HasKey(last'.sent[1].body.extra_body, "conversation_id")
              <=> last'.args.conversation_id # None
           /\ last'.args.conversation_id # None
              => <<"conversation_id", last'.args.conversation_id[1]>>
                     \in last'.sent[1].body.extra_body
           /\ (last'.args.result.ok /\ Len(last'.args.result.choices) > 0)
              => last'.outcome = Return(last'.args.result.choices[1])
           /\ UNCHANGED <<ClientFields, lastLogin>>
      ]_vars

\* the conversation_id a response carries: the entry of its metadata mapping, else None
ExpectedConvId(m) ==
    IF m.attr = "dict" /\ HasKey(m.dict, "conversation_id")
    THEN (CHOOSE p \in m.dict : p[1] = "conversation_id")[2]
    ELSE None

\* C8: ask_with_history on an authenticated client forwards the messages unmodified,
\* includes conversation_id in the extra parameters when given, returns (first choice's
\* content, conversation_id of the response metadata) with None for the second
\* component when the response has no metadata or the metadata has no conversation_id,
\* and leaves the caller's list and the client unchanged.
C8_AskWithHistory ==
    [][ (last'.op = "ask_with_history" /\ Usable(jwt_token) /\ openai_client # None)
        => /\ Len(last'.sent) = 1
           /\ last'.sent[1].body.messages = last'.args.messages
           /\ last'.args.conversation_id # None
              => <<"conversation_id", last'.args.conversation_id[1]>>
                     \in last'.sent[1].body.extra_body
           /\ (last'.args.result.ok /\ Len(last'.args.result.choices) > 0)
              => last'.outcome = Return(<<last'.args.result.choices[1],
                                          ExpectedConvId(last'.args.result.metadata)>>)
           /\ last'.messages_after = last'.args.messages
           /\ UNCHANGED <<ClientFields, lastLogin>>
      ]_vars

IsSlashes(s) == \A i \in 1..Len(s) : s[i] = "/"

\* C9: raw_request on a client with a usable token issues exactly one request, with the
\* given method (POST when omitted), to base_url + endpoint where base_url is the
\* constructor's base_url without trailing slashes, with the given body, the caller's
\* headers and Authorization: Bearer <stored token>, and returns the response as it is,
\* whatever its status.
C9_RawRequest ==
    [][ /\ (last'.op = "raw_request" /\ Usable(jwt_token))
           => /\ Len(last'.sent) = 1
              /\ nreq' = nreq + 1
              /\ last'.sent[1].method
                    = (IF last'.args.method = None THEN "POST" ELSE last'.args.method[1])
              /\ last'.sent[1].url = base_url \o last'.args.endpoint
              /\ (base_url = <<>> \/ base_url[Len(base_url)] # "/")
              /\ last'.sent[1].body = last'.args.body
              /\ Auth(last'.sent[1]) = <<"Bearer", jwt_token[1]>>
              /\ \A p \in last'.sent[1].headers :
                    \/ p[1] = "Authorization"
                    \/ (last'.args.headers # None /\ p \in last'.args.headers[1])
              /\ last'.args.headers # None
                 => \A p \in last'.args.headers[1] :
                       p[1] # "Authorization" => p \in last'.sent[1].headers
              /\ last'.outcome = Return(last'.args.response)
              /\ UNCHANGED <<ClientFields, lastLogin>>
        /\ (last'.op = "init" /\ last'.args.mode = "username_key")
           => \E n \in 0..Len(last'.args.base_url) :
                 /\ n + Len(base_url') = Len(last'.args.base_url)
                 /\ SubSeq(last'.args.base_url, 1, Len(base_url')) = base_url'
                 /\ IsSlashes(SubSeq(last'.args.base_url, Len(base_url') + 1,
                                     Len(last'.args.base_url)))
                 /\ (base_url' = <<>> \/ base_url'[Len(base_url')] # "/")
      ]_vars

C9_Witness ==
    /\ last.op = "raw_request"
    /\ last.outcome.kind = "return"
    /\ last.outcome.value.status = 404
    /\ last.args.headers = Some({<<"Authorization", <<"Basic", "abc">>>>})
    /\ last.args.method = None
    /\ Len(last.sent) = 1

\* C10: the chat accessor is usable exactly when raw_request is: the chat client exists
\* if and only if a usable token is stored, and it was built with the stored token.
C10_ChecksAgree ==
    constructed = "ok"
    => /\ openai_client # None <=> Usable(jwt_token)
       /\ openai_client # None
          => /\ jwt_token # None
             /\ openai_client[1].api_key = jwt_token[1]

====
